---- MODULE Spec2Model ----
(***************************************************************************)
(* Recognition provider orchestration: the provider registry (a JS Map in  *)
(* insertion order) and RecognitionServiceImpl.recognizeMath/recognizeText *)
(* as a sequence of atomic segments separated by the awaits of the code.   *)
(* Providers are opaque: every isAvailable / recognize call resolves to a  *)
(* nondeterministically chosen outcome (value or exception).               *)
(***************************************************************************)
EXTENDS Integers, Sequences, FiniteSets, TLC

\* ------------------------------------------------------------------ bounds
NumInstances == 3

\* registry writes interleaved with one running request
MaxWrites == 1

\* ------------------------------------------------------- provider objects
Instances == 1..NumInstances

\* the value of an absent optional (undefined)
Undef == "<undefined>"

\* ids of the shipped provider classes
Ids == <<"seshat", "mathpix">>

\* names of the shipped provider classes
Names == <<"Seshat (Open Source)", "MathPix API">>

ClassOf(i) == ((i - 1) % Len(Ids)) + 1

\* provider.id: instance 1 is a SeshatProvider, 2 a MathPixProvider,
\* 3 a second SeshatProvider object, ...
IdOf(i) == Ids[ClassOf(i)]

\* provider.name
NameOf(i) == Names[ClassOf(i)]

\* the message a provider instance puts in its failures
ErrorOf(i) == "error of instance " \o ToString(i)

\* the recognised content a provider instance produces
ContentOf(i) == "content of instance " \o ToString(i)

Kinds == {"math", "text"}

\* the kind-specific method of a provider
MethodOf_AlwaysMath(kind) == "recognizeMath"

MethodOf(kind) == IF kind = "math" THEN "recognizeMath" ELSE "recognizeText"

\* providerId arguments a caller can pass
ProviderIdArgs == {Undef, "", "seshat", "mathpix", "unknown"}

\* JavaScript truthiness of an optional string
Truthy(s) == s # Undef /\ s # ""

\* ------------------------------------ state outside the service object
VARIABLES
  flavour,            \* which provider classes the instances are objects of
  objects,            \* the fields of each provider object
  windowModule,       \* (window as any).SeshatModule is set
  waiting,            \* the methods called directly on each provider
                      \*   object that are suspended in it
  answer,             \* the direct call that returned in this step and
                      \*   what it resolved to
  http,               \* the HTTP exchange the controller is handling
  payload,            \* the image a caller hands over for normalisation
  normalized,         \* what the normalisation of the payload gave
  env,                \* the MathPix credentials the wiring reads
  ui                  \* the React state of the component that starts
                      \*   requests, and the requests it started

\* ------------------------------------------------------ RecognitionResult
NoResult == [success |-> FALSE, confidence |-> 0, error |-> Undef,
             latex |-> Undef, text |-> Undef]

\* the Results a provider's kind-specific method may resolve to: successes
\* with and without a message, failures with no, an empty and a real message,
\* and a failure that still reports a confidence
ProviderResults(i, kind) ==
  { r \in [success : BOOLEAN, confidence : {0, 1},
           error : {Undef, "", ErrorOf(i)},
           latex : {IF kind = "math" THEN ContentOf(i) ELSE Undef},
           text : {IF kind = "text" THEN ContentOf(i) ELSE Undef}] :
      /\ r.success => (r.confidence = 1 /\ r.error # "")
      /\ (~r.success /\ r.confidence = 1) => r.error = ErrorOf(i) }

\* the failure Result the service builds itself
FailureResult(msg) == [success |-> FALSE, confidence |-> 0, error |-> msg,
                       latex |-> Undef, text |-> Undef]

\* -------------------------------------------------- outcomes of one call
Pending == [status |-> "pending", avail |-> FALSE, message |-> Undef,
            result |-> NoResult]

Returned(r) == [status |-> "returned", avail |-> FALSE, message |-> Undef,
                result |-> r]

Resolved(b) == [status |-> "returned", avail |-> b, message |-> Undef,
                result |-> NoResult]

Threw(m) == [status |-> "threw", avail |-> FALSE, message |-> m,
             result |-> NoResult]

\* ------------------------------------------------ shipped provider classes
\* null
Null == "<null>"

\* JavaScript truthiness of a value that may be null
IsSet(v) == v # Undef /\ v # Null /\ v # ""

\* which classes the provider instances are objects of: "none" when they
\* are arbitrary implementations of the RecognitionProvider interface,
\* "plain" for the frontend SeshatProvider without degraded paths,
\* "degrading" for the frontend SeshatProvider with the API and stub paths,
\* "backend" for the server SeshatProvider; MathPixProvider is the same in
\* all of them
Flavours == {"plain", "degrading", "backend"}

IsSeshat(i) == IdOf(i) = "seshat"

IsMathPix(i) == IdOf(i) = "mathpix"

\* the fields of a provider object before its constructor has run
NoObject == [made |-> FALSE, initializationPromise |-> "null",
             isInitialized |-> FALSE, seshatInstance |-> "null",
             exec |-> "none", loads |-> 0, appId |-> Null, apiKey |-> Null]

\* a Result of a shipped provider; confidences are in hundredths
ShippedResult(success, confidence, error, latex, text, fallbackProvider) ==
  [success |-> success, confidence |-> confidence, error |-> error,
   latex |-> latex, text |-> text, fallbackProvider |-> fallbackProvider]

\* {success: false, confidence: 0, error} of a provider
ShippedFailure(msg) == ShippedResult(FALSE, 0, msg, Undef, Undef, Undef)

\* `result.confidence || 0.7` and the like
SeshatMathConfidence == 70

SeshatTextConfidence == 50

StubMathConfidence == 80

StubTextConfidence == 70

MathPixConfidence == 90

\* a confidence an engine or a remote service reports itself
ReportedConfidence == 85

OrDefault(confidence, default) ==
  IF confidence # 0 THEN confidence ELSE default

\* messages
NotInitializedMessage == "Seshat is not initialized"

NoExpressionMessage == "Failed to recognize expression"

NoTextMessage == "Failed to recognize text"

NoCredentialsMessage == "MathPix credentials are not set"

NoMathPixResultMessage == "No valid result returned from MathPix"

NoMathPixTextMessage == "No valid text result returned from MathPix"

MathPixApiErrorMessage == "MathPix API error: {\"error\":\"Unknown error\"}"

\* messages of errors raised by the platform: the module load, the payload
\* conversion, the engine, the network
LoadErrorMessage == "load error"

PayloadErrorMessage == "payload error"

EngineErrorMessage == "engine error"

NetworkErrorMessage == "network error"

\* what the engine's recognizeExpression / recognizeText may do: raise,
\* return nothing usable, return content with or without a confidence
EngineOutputs ==
  [threw : {TRUE}, content : {Undef}, confidence : {0}] \cup
  [threw : {FALSE}, content : {Undef, "", "engine content"},
   confidence : {0, ReportedConfidence}]

\* what fetch of the server API may do for the degrading SeshatProvider:
\* raise, answer with an error status, answer 200 with some Result body
ApiBodies(kind) ==
  {ShippedResult(TRUE, ReportedConfidence, Undef,
                 IF kind = "math" THEN "api content" ELSE Undef,
                 IF kind = "text" THEN "api content" ELSE Undef, Undef),
   ShippedResult(TRUE, ReportedConfidence, Undef, Null, "api content", Undef)}

ApiResponses(kind) ==
  [threw : {TRUE}, ok : {FALSE}, body : {NoResult}] \cup
  [threw : {FALSE}, ok : {FALSE}, body : {NoResult}] \cup
  [threw : {FALSE}, ok : {TRUE}, body : ApiBodies(kind)]

\* what fetch of the MathPix API may do: raise, answer with an error status,
\* answer 200 with a body that has latex and text, one of them, or neither
MathPixResponses ==
  [threw : {TRUE}, ok : {FALSE}, latex : {Undef}, text : {Undef},
   confidence : {0}] \cup
  [threw : {FALSE}, ok : {FALSE}, latex : {Undef}, text : {Undef},
   confidence : {0}] \cup
  [threw : {FALSE}, ok : {TRUE}, latex : {Undef, "mathpix latex"},
   text : {Undef, "mathpix text"}, confidence : {0, ReportedConfidence}]

\* the placeholder Result of the degrading SeshatProvider
StubResult(kind, error) ==
  IF kind = "math"
  THEN ShippedResult(TRUE, StubMathConfidence, error, "\\frac{x^2}{2}",
                     Undef, "stub")
  ELSE ShippedResult(TRUE, StubTextConfidence, error, Undef,
                     "stub text", "stub")

\* the catch of SeshatProvider.recognizeMath / recognizeText
SeshatCatch_Failure(fl, kind, msg) == ShippedFailure(msg)

SeshatCatch(fl, kind, msg) ==
  IF fl = "degrading" THEN StubResult(kind, msg) ELSE ShippedFailure(msg)

\* the engine is not ready after `await this.initialize()`
SeshatNotReady(fl, kind, api) ==
  IF fl = "degrading"
  THEN IF ~api.threw /\ api.ok
       THEN [api.body EXCEPT !.fallbackProvider = "api"]
       ELSE StubResult(kind, Undef)
  ELSE SeshatCatch(fl, kind, NotInitializedMessage)

\* SeshatProvider.recognizeMath / recognizeText once `await
\* this.initialize()` has settled, for object fields o
SeshatResult(fl, kind, o, payloadOk, engine, api) ==
  IF o.initializationPromise = "rejected"
  THEN SeshatCatch(fl, kind, LoadErrorMessage)
  ELSE IF ~o.isInitialized \/ o.seshatInstance = "null"
  THEN SeshatNotReady(fl, kind, api)
  ELSE IF ~payloadOk
  THEN SeshatCatch(fl, kind, PayloadErrorMessage)
  ELSE IF engine.threw
  THEN SeshatCatch(fl, kind, EngineErrorMessage)
  ELSE IF ~IsSet(engine.content)
  THEN ShippedFailure(IF kind = "math" THEN NoExpressionMessage
                      ELSE NoTextMessage)
  ELSE IF kind = "math"
  THEN ShippedResult(TRUE, OrDefault(engine.confidence, SeshatMathConfidence),
                     Undef, engine.content, Undef, Undef)
  ELSE ShippedResult(TRUE, OrDefault(engine.confidence, SeshatTextConfidence),
                     Undef, Undef, engine.content, Undef)

\* the Result MathPixProvider builds from a 200 answer
MathPixSuccess_Unchecked(kind, resp) ==
  ShippedResult(TRUE, OrDefault(resp.confidence, MathPixConfidence), Undef,
                IF kind = "math" /\ IsSet(resp.latex) THEN resp.latex
                ELSE IF kind = "math" THEN Null ELSE Undef,
                IF IsSet(resp.text) THEN resp.text
                ELSE IF kind = "math" THEN Null ELSE Undef, Undef)

MathPixSuccess(kind, resp) ==
  IF kind = "math"
  THEN IF ~IsSet(resp.latex) /\ ~IsSet(resp.text)
       THEN ShippedFailure(NoMathPixResultMessage)
       ELSE ShippedResult(TRUE, OrDefault(resp.confidence, MathPixConfidence),
                          Undef,
                          IF IsSet(resp.latex) THEN resp.latex ELSE Null,
                          IF IsSet(resp.text) THEN resp.text ELSE Null, Undef)
  ELSE IF ~IsSet(resp.text)
       THEN ShippedFailure(NoMathPixTextMessage)
       ELSE ShippedResult(TRUE, OrDefault(resp.confidence, MathPixConfidence),
                          Undef, Undef, resp.text, Undef)

\* MathPixProvider.recognizeMath / recognizeText for object fields o
MathPixResult(kind, o, payloadOk, resp) ==
  IF ~IsSet(o.appId) \/ ~IsSet(o.apiKey)
  THEN ShippedFailure(NoCredentialsMessage)
  ELSE IF ~payloadOk
  THEN ShippedFailure(PayloadErrorMessage)
  ELSE IF resp.threw
  THEN ShippedFailure(NetworkErrorMessage)
  ELSE IF ~resp.ok
  THEN ShippedFailure(MathPixApiErrorMessage)
  ELSE MathPixSuccess(kind, resp)

\* MathPixProvider.isAvailable for object fields o
MathPixAvailable_Either(o) == IsSet(o.appId) \/ IsSet(o.apiKey)

MathPixAvailable(o) == IsSet(o.appId) /\ IsSet(o.apiKey)

\* SeshatProvider.isAvailable once `await this.initialize()` has settled:
\* a rejected initialization is caught and answered false
SeshatAvailable_Always(o) == TRUE

SeshatAvailable(o) ==
  IF o.initializationPromise = "rejected" THEN FALSE ELSE o.isInitialized

\* `await this.initialize()` of a call on the object is still suspended
AwaitsInitialize(o) == o.initializationPromise \in {"null", "pending"}

\* what isAvailable() of shipped object i can resolve to now
ShippedAvailableOutcomes(i) ==
  IF IsMathPix(i)
  THEN {Resolved(MathPixAvailable(objects[i]))}
  ELSE IF AwaitsInitialize(objects[i])
  THEN {}
  ELSE {Resolved(SeshatAvailable(objects[i]))}

\* what recognizeMath / recognizeText of shipped object i can resolve to now
ShippedRecognizeOutcomes(i, kind) ==
  IF IsMathPix(i)
  THEN {Returned(MathPixResult(kind, objects[i], payloadOk, resp)) :
          payloadOk \in BOOLEAN, resp \in MathPixResponses}
  ELSE IF AwaitsInitialize(objects[i])
  THEN {}
  ELSE {Returned(SeshatResult(flavour, kind, objects[i], payloadOk, engine,
                              api)) :
          payloadOk \in BOOLEAN, engine \in EngineOutputs,
          api \in ApiResponses(kind)}

\* what `await provider.isAvailable()` can produce
AvailableOutcomes(i) ==
  IF flavour = "none"
  THEN {Resolved(TRUE), Resolved(FALSE), Threw(ErrorOf(i))}
  ELSE ShippedAvailableOutcomes(i)

\* what `await provider.recognizeMath/Text(imageData)` can produce
RecognizeOutcomes(i, kind) ==
  IF flavour = "none"
  THEN {Returned(r) : r \in ProviderResults(i, kind)} \cup
       {Threw(m) : m \in {"", ErrorOf(i)}}
  ELSE ShippedRecognizeOutcomes(i, kind)

\* ------------------------------------------------------------ the JS Map
Range(s) == {s[k] : k \in 1..Len(s)}

\* position of key id in the Map's entry list, 0 when absent
IndexOfKey(m, id) ==
  IF \E k \in 1..Len(m) : IdOf(m[k]) = id
  THEN CHOOSE k \in 1..Len(m) : IdOf(m[k]) = id
  ELSE 0

\* Map.prototype.has
MapHas(m, id) == IndexOfKey(m, id) # 0

\* Map.prototype.get, 0 standing for undefined
MapGet_FirstWhenAbsent(m, id) ==
  IF MapHas(m, id) THEN m[IndexOfKey(m, id)]
  ELSE IF Len(m) > 0 THEN m[1] ELSE 0

MapGet(m, id) == IF MapHas(m, id) THEN m[IndexOfKey(m, id)] ELSE 0

\* Map.prototype.set(provider.id, provider): an existing key keeps its
\* position and gets the new value, a new key is appended
MapSet_KeepFirst(m, p) == IF MapHas(m, IdOf(p)) THEN m ELSE Append(m, p)

MapSet_MoveToEnd(m, p) ==
  Append(SelectSeq(m, LAMBDA q : IdOf(q) # IdOf(p)), p)

MapSet(m, p) ==
  IF MapHas(m, IdOf(p))
  THEN [m EXCEPT ![IndexOfKey(m, IdOf(p))] = p]
  ELSE Append(m, p)

\* Map.prototype.delete
MapDelete(m, id) ==
  IF MapHas(m, id)
  THEN SubSeq(m, 1, IndexOfKey(m, id) - 1) \o
       SubSeq(m, IndexOfKey(m, id) + 1, Len(m))
  ELSE m

\* ------------------------------------ state of the service object
VARIABLES
  providers,          \* this.providers, the values in insertion order
  pc,                 \* where the request is suspended
  kind,               \* "math" for recognizeMath, "text" for recognizeText
  providerId,         \* the providerId argument
  provider,           \* the local `provider` of the running segment
  iter,               \* entries the Map iterator of the probe loop has passed
  availableProviders, \* the local availableProviders
  attempt,            \* index of the fallback loop in availableProviders
  lastError,          \* the local lastError
  result,             \* the Result the call resolved to
  calls,              \* history: provider calls of this request, in order
  regSince,           \* history: instances registered at some time since
                      \*   the request started
  startProviders,     \* history: this.providers when the request started
  writes,             \* history: registry writes since the request started
  displaced,          \* history: instances a registration replaced and
                      \*   that were not registered again
  regOrder,           \* history: the registered instances, in the order of
                      \*   the registerProvider calls that put them in
  keyOrder            \* history: the registered ids, in the order in which
                      \*   each became present

vars == <<providers, pc, kind, providerId, provider, iter,
          availableProviders, attempt, lastError, result, calls, regSince,
          startProviders, writes, displaced, regOrder, keyOrder,
          flavour, objects, windowModule, waiting, answer, http,
          payload, normalized, env, ui>>

\* the state outside the RecognitionServiceImpl object and its request
\* the state of the components next to the service and the providers: the
\* payload normalisation, the configuration, the user interface
elsewhere == <<payload, normalized, env, ui>>

outside == <<flavour, objects, windowModule, waiting, answer, http, elsewhere>>

reqVars == <<pc, kind, providerId, provider, iter, availableProviders,
             attempt, lastError, result, calls>>

\* ------------------------------------------------- messages of the service
NotFoundMessage(id) == "Provider with id " \o id \o " not found"

NotAvailableMessage(p) == "Provider " \o NameOf(p) \o " is not available"

NoProvidersMessage == "No available recognition providers"

AllFailedMessage == "Recognition failed with all available providers"

\* ----------------------------------------------------------- small pieces
\* a provider call entered in the history
Call(p, op) == [inst |-> p, op |-> op, out |-> Pending]

\* the history with the outcome of the call in flight filled in
Answer(log, out) == [log EXCEPT ![Len(log)].out = out]

\* `if (isAvailable) availableProviders.push(provider)`; a check that
\* raised is caught and only logged
IsCandidate_ThrowCounts(out) == out.status = "threw" \/ out.avail

IsCandidate(out) == out.status = "returned" /\ out.avail

\* `if (result.success) return result`
AttemptSucceeded_NoError(out) ==
  out.status = "returned" /\ out.result.success /\ out.result.error = Undef

AttemptSucceeded(out) == out.status = "returned" /\ out.result.success

\* `return await provider.recognizeMath(imageData)` of the explicit path
PassThrough_ZeroConfidence(r) ==
  IF r.success THEN r ELSE [r EXCEPT !.confidence = 0]

PassThrough(r) == r

\* the Result when every candidate failed
AllFailedResult_Generic(le) == FailureResult(AllFailedMessage)

AllFailedResult(le) ==
  FailureResult(IF Truthy(le) THEN le ELSE AllFailedMessage)

\* the Result when the filtered set is empty
NoProvidersResult == FailureResult(NoProvidersMessage)

\* the Result of the outer catch
CaughtResult(m) == FailureResult(m)

\* assignment of all the locals of the request at the end of a segment
Set(npc, nprovider, niter, navailable, nattempt, nlastError, nresult, ncalls) ==
  /\ pc' = npc
  /\ provider' = nprovider
  /\ iter' = niter
  /\ availableProviders' = navailable
  /\ attempt' = nattempt
  /\ lastError' = nlastError
  /\ result' = nresult
  /\ calls' = ncalls

\* the call resolves to Result r
Return(r, avail, le, log) == Set("done", 0, 0, avail, 0, le, r, log)

\* an Error thrown inside the outer try: the outer catch turns it into a
\* Result and the call resolves to it
Caught_Rethrow(m, log) ==
  Set("rejected", 0, 0, <<>>, 0, Undef, NoResult, log)

Caught(m, log) == Return(CaughtResult(m), <<>>, Undef, log)

\* the fallback loop with k candidates already tried, up to its next await
AttemptFrom(avail, k, le, log) ==
  IF k < Len(avail)
  THEN Set("attemptWait", avail[k + 1], 0, avail, k + 1, le, NoResult,
           Append(log, Call(avail[k + 1], MethodOf(kind'))))
  ELSE Return(AllFailedResult(le), avail, le, log)

\* after the probe loop: the empty check, then the fallback loop
AfterProbes_NoEmptyCheck(avail, log) == AttemptFrom(avail, 0, Undef, log)

AfterProbes(avail, log) ==
  IF Len(avail) = 0
  THEN Return(NoProvidersResult, avail, Undef, log)
  ELSE AttemptFrom(avail, 0, Undef, log)

\* the probe loop with k Map entries already passed, up to its next await
ProbeFrom_FanOut(avail, k, log) ==
  IF k < Len(providers)
  THEN Set("probeWait", providers[k + 1], k + 1, avail, 0, Undef, NoResult,
           log \o [j \in 1..(Len(providers) - k) |->
                     Call(providers[k + j], "isAvailable")])
  ELSE AfterProbes(avail, log)

ProbeFrom(avail, k, log) ==
  IF k < Len(providers)
  THEN Set("probeWait", providers[k + 1], k + 1, avail, 0, Undef, NoResult,
           Append(log, Call(providers[k + 1], "isAvailable")))
  ELSE AfterProbes(avail, log)

\* explicit path, the named provider is not available: the thrown Error is
\* turned into a Result by the outer catch
ExplicitUnavailable_Fallback(p, log) == ProbeFrom(<<>>, 0, log)

ExplicitUnavailable(p, log) == Caught(NotAvailableMessage(p), log)

\* fallback loop, the candidate returned success=false
AttemptReturnedFailure_Stop(r, log) ==
  Return(r, availableProviders, r.error, log)

AttemptReturnedFailure_KeepMessage(r, log) ==
  AttemptFrom(availableProviders, attempt,
              IF Truthy(r.error) THEN r.error ELSE lastError, log)

AttemptReturnedFailure(r, log) ==
  AttemptFrom(availableProviders, attempt, r.error, log)

\* fallback loop, the candidate's call raised
AttemptThrew_HardStop(m, log) ==
  Return(CaughtResult(m), availableProviders, m, log)

AttemptThrew(m, log) == AttemptFrom(availableProviders, attempt, m, log)

\* ------------------------------------------------------------------- Init
\* new RecognitionServiceImpl(initialProviders): the constructor registers
\* the initial providers; no request is running
\* no direct call has resolved in this step
NoAnswer == [inst |-> 0, op |-> "none", out |-> Pending, args |-> <<>>]

\* the controller is handling no exchange
NoExchange == [state |-> "none", kind |-> "math", image |-> "none",
               providerId |-> Undef, status |-> 0]

\* no payload is being normalised
NoPayload == [type |-> "none", bytes |-> <<>>, mime |-> <<>>]

NotNormalized == [by |-> "none", threw |-> FALSE, bytes |-> <<>>]

\* neither MATHPIX_APP_ID nor MATHPIX_API_KEY is set
NoCredentials == [appId |-> Undef, apiKey |-> Undef]

\* no component is mounted
NoUi == [component |-> "none", serviceSet |-> FALSE, isLoading |-> FALSE,
         error |-> Null, requests |-> <<>>]

ElsewhereIdle ==
  /\ payload = NoPayload
  /\ normalized = NotNormalized
  /\ env = NoCredentials
  /\ ui = NoUi

\* no request is running
NoRequest ==
  /\ pc = "idle"
  /\ kind = "math"
  /\ providerId = Undef
  /\ provider = 0
  /\ iter = 0
  /\ availableProviders = <<>>
  /\ attempt = 0
  /\ lastError = Undef
  /\ result = NoResult
  /\ calls = <<>>
  /\ regSince = {}
  /\ startProviders = <<>>
  /\ writes = 0
  /\ displaced = {}

\* no provider object has been constructed
NoObjects ==
  /\ objects = [i \in Instances |-> NoObject]
  /\ windowModule = FALSE
  /\ waiting = [i \in Instances |-> {}]
  /\ answer = NoAnswer

Init ==
  /\ providers \in {<<>>, MapSet(<<>>, 1)}
  /\ regOrder = providers
  /\ keyOrder = [k \in 1..Len(providers) |-> IdOf(providers[k])]
  /\ NoRequest
  /\ flavour = "none"
  /\ NoObjects
  /\ http = NoExchange
  /\ ElsewhereIdle

Running == pc \notin {"idle", "done"}

\* --------------------------------------------------------- registry writes
\* Registry writes are modelled between requests and at every await of a
\* running request ("done" is the instant the Result is handed over).
\* registerProvider(provider)
RegisterProvider(p) ==
  /\ pc # "done"
  /\ Running => writes < MaxWrites
  /\ providers' = MapSet(providers, p)
  /\ displaced' = (displaced \cup ({MapGet(providers, IdOf(p))} \ {0})) \ {p}
  /\ regSince' = IF Running THEN regSince \cup {p} ELSE regSince
  /\ writes' = IF Running THEN writes + 1 ELSE writes
  /\ regOrder' = Append(SelectSeq(regOrder, LAMBDA q : IdOf(q) # IdOf(p)), p)
  /\ keyOrder' = IF IdOf(p) \in Range(keyOrder)
                 THEN keyOrder ELSE Append(keyOrder, IdOf(p))
  /\ UNCHANGED <<outside, reqVars, startProviders>>

\* unregisterProvider(providerId); a running Map iterator that has passed
\* the deleted entry stays on the entry it is on
UnregisterProvider(id) ==
  /\ pc # "done"
  /\ Running => writes < MaxWrites
  /\ MapHas(providers, id)
  /\ providers' = MapDelete(providers, id)
  /\ iter' = IF pc = "probeWait" /\ IndexOfKey(providers, id) <= iter
             THEN iter - 1 ELSE iter
  /\ writes' = IF Running THEN writes + 1 ELSE writes
  /\ regOrder' = SelectSeq(regOrder, LAMBDA q : IdOf(q) # id)
  /\ keyOrder' = SelectSeq(keyOrder, LAMBDA k : k # id)
  /\ UNCHANGED <<outside, pc, kind, providerId, provider, availableProviders, attempt,
                 lastError, result, calls, regSince, startProviders,
                 displaced>>

\* ------------------------------------------------- recognizeMath / Text
\* the call, up to its first await or its return
Recognize(k, pid) ==
  /\ pc = "idle"
  /\ kind' = k
  /\ providerId' = pid
  /\ startProviders' = providers
  /\ regSince' = Range(providers)
  /\ writes' = 0
  /\ IF Truthy(pid)
     THEN LET p == MapGet(providers, pid) IN
          IF p = 0
          THEN Caught(NotFoundMessage(pid), <<>>)
          ELSE Set("explicitProbe", p, 0, <<>>, 0, Undef, NoResult,
                   <<Call(p, "isAvailable")>>)
     ELSE ProbeFrom(<<>>, 0, <<>>)
  /\ UNCHANGED <<outside, providers, displaced, regOrder, keyOrder>>

\* explicit path: `await provider.isAvailable()` resumes
ExplicitAvailableResolve(out) ==
  /\ pc = "explicitProbe"
  /\ out \in AvailableOutcomes(provider)
  /\ kind' = kind
  /\ LET log == Answer(calls, out) IN
     IF out.status = "threw"
     THEN Caught(out.message, log)
     ELSE IF ~out.avail
     THEN ExplicitUnavailable(provider, log)
     ELSE Set("explicitCall", provider, 0, <<>>, 0, Undef, NoResult,
              Append(log, Call(provider, MethodOf(kind))))
  /\ UNCHANGED <<outside, providers, providerId, regSince, startProviders, writes,
                 displaced, regOrder, keyOrder>>

\* explicit path: `await provider.recognizeMath(imageData)` resumes
ExplicitRecognizeResolve(out) ==
  /\ pc = "explicitCall"
  /\ out \in RecognizeOutcomes(provider, kind)
  /\ kind' = kind
  /\ LET log == Answer(calls, out) IN
     IF out.status = "threw"
     THEN Caught(out.message, log)
     ELSE Return(PassThrough(out.result), <<>>, Undef, log)
  /\ UNCHANGED <<outside, providers, providerId, regSince, startProviders, writes,
                 displaced, regOrder, keyOrder>>

\* probe loop: `await provider.isAvailable()` resumes
ProbeResolve(out) ==
  /\ pc = "probeWait"
  /\ out \in AvailableOutcomes(provider)
  /\ kind' = kind
  /\ LET log == Answer(calls, out)
         avail == IF IsCandidate(out)
                  THEN Append(availableProviders, provider)
                  ELSE availableProviders
     IN ProbeFrom(avail, iter, log)
  /\ UNCHANGED <<outside, providers, providerId, regSince, startProviders, writes,
                 displaced, regOrder, keyOrder>>

\* fallback loop: `await provider.recognizeMath(imageData)` resumes
AttemptResolve(out) ==
  /\ pc = "attemptWait"
  /\ out \in RecognizeOutcomes(provider, kind)
  /\ kind' = kind
  /\ LET log == Answer(calls, out) IN
     IF out.status = "threw"
     THEN AttemptThrew(out.message, log)
     ELSE IF AttemptSucceeded(out)
     THEN Return(out.result, availableProviders, lastError, log)
     ELSE AttemptReturnedFailure(out.result, log)
  /\ UNCHANGED <<outside, providers, providerId, regSince, startProviders, writes,
                 displaced, regOrder, keyOrder>>

\* the caller takes the Result; the service is ready for the next call
Complete ==
  /\ pc = "done"
  /\ pc' = "idle"
  /\ kind' = "math"
  /\ providerId' = Undef
  /\ availableProviders' = <<>>
  /\ lastError' = Undef
  /\ result' = NoResult
  /\ calls' = <<>>
  /\ regSince' = {}
  /\ startProviders' = <<>>
  /\ writes' = 0
  /\ UNCHANGED <<outside, providers, provider, iter, attempt, displaced, regOrder,
                 keyOrder>>

Next ==
  \/ \E p \in Instances : RegisterProvider(p)
  \/ \E id \in Range(Ids) : UnregisterProvider(id)
  \/ \E k \in Kinds, pid \in ProviderIdArgs : Recognize(k, pid)
  \/ \E out \in UNION {AvailableOutcomes(i) : i \in Instances} :
       ExplicitAvailableResolve(out)
  \/ \E out \in UNION {RecognizeOutcomes(i, k) : i \in Instances, k \in Kinds} :
       ExplicitRecognizeResolve(out)
  \/ \E out \in UNION {AvailableOutcomes(i) : i \in Instances} :
       ProbeResolve(out)
  \/ \E out \in UNION {RecognizeOutcomes(i, k) : i \in Instances, k \in Kinds} :
       AttemptResolve(out)
  \/ Complete

Spec == Init /\ [][Next]_vars

TypeOK ==
  /\ Range(providers) \subseteq Instances
  /\ \A a, b \in 1..Len(providers) : a # b => IdOf(providers[a]) # IdOf(providers[b])
  /\ pc \in {"idle", "explicitProbe", "explicitCall", "probeWait",
             "attemptWait", "done", "rejected"}
  /\ iter \in 0..Len(providers)
  /\ attempt \in 0..Len(availableProviders)

\* ======================================================== provider objects
\* the methods of a provider that resolve to an answer
Ops == {"isAvailable", "recognizeMath", "recognizeText"}

KindOf(op) == IF op = "recognizeText" THEN "text" ELSE "math"

\* values a caller can pass as appId or apiKey
CredentialInputs == {Undef, "", "credential"}

\* the load counter, which only needs to tell none, one and several apart
Again(n) == IF n < 2 THEN n + 1 ELSE n

\* SeshatProvider.initialize(): the first call creates the promise and
\* starts the load, every later call returns the same promise
Initialize_NoMemo(fl, o) ==
  [o EXCEPT !.initializationPromise = "pending",
            !.exec = IF fl = "backend" THEN "load" ELSE "import",
            !.loads = Again(@)]

Initialize_RetryFailed(fl, o) ==
  IF o.initializationPromise \notin {"null", "rejected"}
  THEN o
  ELSE [o EXCEPT !.initializationPromise = "pending",
                 !.exec = IF fl = "backend" THEN "load" ELSE "import",
                 !.loads = Again(@)]

Initialize(fl, o) ==
  IF o.initializationPromise # "null"
  THEN o
  ELSE [o EXCEPT !.initializationPromise = "pending",
                 !.exec = IF fl = "backend" THEN "load" ELSE "import",
                 !.loads = Again(@)]

\* `config.appId || null` of the constructor, `if (credentials.appId)
\* this.appId = credentials.appId` of setCredentials
Stored_Overwrite(old, new) == IF new = Undef THEN Null ELSE new

Stored(old, new) == IF Truthy(new) THEN new ELSE old

service == <<providers, pc, kind, providerId, provider, iter,
             availableProviders, attempt, lastError, result, calls, regSince,
             startProviders, writes, displaced, regOrder, keyOrder>>

\* new SeshatProvider(): the constructor calls initialize()
ConstructSeshat(i) ==
  /\ IsSeshat(i)
  /\ ~objects[i].made
  /\ objects' = [objects EXCEPT
                   ![i] = Initialize(flavour, [NoObject EXCEPT !.made = TRUE])]
  /\ answer' = NoAnswer
  /\ UNCHANGED <<service, elsewhere, flavour, windowModule, waiting, http>>

\* new MathPixProvider(config)
ConstructMathPix(i, appId, apiKey) ==
  /\ IsMathPix(i)
  /\ ~objects[i].made
  /\ objects' = [objects EXCEPT
                   ![i] = [NoObject EXCEPT !.made = TRUE,
                                           !.appId = Stored(Null, appId),
                                           !.apiKey = Stored(Null, apiKey)]]
  /\ answer' = NoAnswer
  /\ UNCHANGED <<service, elsewhere, flavour, windowModule, waiting, http>>

\* MathPixProvider.setCredentials(credentials)
SetCredentials(i, appId, apiKey) ==
  /\ IsMathPix(i)
  /\ objects[i].made
  /\ objects' = [objects EXCEPT
                   ![i].appId = Stored(@, appId),
                   ![i].apiKey = Stored(@, apiKey)]
  /\ answer' = [inst |-> i, op |-> "setCredentials", out |-> Pending,
                args |-> <<appId, apiKey>>]
  /\ UNCHANGED <<service, elsewhere, flavour, windowModule, waiting, http>>

\* frontend: `await import('../../wasm/seshat')` resumes, and with the
\* module at hand initSeshat runs up to its `await fetch(wasmUrl)`; when
\* window.SeshatModule is set already, initSeshat returns it at once and
\* never calls onRuntimeInitialized
ImportDone(i, ok) ==
  /\ objects[i].exec = "import"
  /\ objects' = [objects EXCEPT ![i] =
       IF ~ok
       THEN [@ EXCEPT !.initializationPromise = "rejected", !.exec = "ended"]
       ELSE IF windowModule
       THEN [@ EXCEPT !.seshatInstance = "real", !.exec = "ended"]
       ELSE [@ EXCEPT !.exec = "fetch"]]
  /\ answer' = NoAnswer
  /\ UNCHANGED <<service, elsewhere, flavour, windowModule, waiting, http>>

\* frontend: `await fetch(wasmUrl)` of initSeshat resumes: with the file
\* at hand the module is built and stored in window.SeshatModule, otherwise
\* the catch returns the fallback module; both schedule
\* onRuntimeInitialized with setTimeout
FetchDone(i, ok) ==
  /\ objects[i].exec = "fetch"
  /\ objects' = [objects EXCEPT
                   ![i].seshatInstance = IF ok THEN "real" ELSE "fallback",
                   ![i].exec = "timer"]
  /\ windowModule' = (windowModule \/ ok)
  /\ answer' = NoAnswer
  /\ UNCHANGED <<service, elsewhere, flavour, waiting, http>>

\* frontend: the timer runs onRuntimeInitialized
TimerFires(i) ==
  /\ objects[i].exec = "timer"
  /\ objects' = [objects EXCEPT ![i].isInitialized = TRUE,
                                ![i].initializationPromise = "fulfilled",
                                ![i].exec = "ended"]
  /\ answer' = NoAnswer
  /\ UNCHANGED <<service, elsewhere, flavour, windowModule, waiting, http>>

\* backend: `await loadSeshatWasmModule()` resumes or raises
LoadDone(i, ok) ==
  /\ objects[i].exec = "load"
  /\ objects' = [objects EXCEPT ![i] =
       IF ok
       THEN [@ EXCEPT !.seshatInstance = "real", !.isInitialized = TRUE,
                      !.initializationPromise = "fulfilled", !.exec = "ended"]
       ELSE [@ EXCEPT !.initializationPromise = "rejected", !.exec = "ended"]]
  /\ answer' = NoAnswer
  /\ UNCHANGED <<service, elsewhere, flavour, windowModule, waiting, http>>

\* what method op of shipped object i can resolve to now
ShippedOutcomes(i, op) ==
  IF op = "isAvailable" THEN ShippedAvailableOutcomes(i)
  ELSE ShippedRecognizeOutcomes(i, KindOf(op))

\* a caller invokes isAvailable / recognizeMath / recognizeText of a
\* SeshatProvider object: the method runs up to `await this.initialize()`
CallSeshat(i, op) ==
  /\ IsSeshat(i)
  /\ objects[i].made
  /\ op \notin waiting[i]
  /\ objects' = [objects EXCEPT ![i] = Initialize(flavour, @)]
  /\ waiting' = [waiting EXCEPT ![i] = @ \cup {op}]
  /\ answer' = NoAnswer
  /\ UNCHANGED <<service, elsewhere, flavour, windowModule, http>>

\* the suspended method resumes and runs to its return
ResolveSeshat(i, op, out) ==
  /\ op \in waiting[i]
  /\ out \in ShippedOutcomes(i, op)
  /\ waiting' = [waiting EXCEPT ![i] = @ \ {op}]
  /\ answer' = [inst |-> i, op |-> op, out |-> out, args |-> <<>>]
  /\ UNCHANGED <<service, elsewhere, flavour, objects, windowModule, http>>

\* a caller invokes a method of a MathPixProvider object; the fields are
\* read before the first await
CallMathPix(i, op, out) ==
  /\ IsMathPix(i)
  /\ objects[i].made
  /\ out \in ShippedOutcomes(i, op)
  /\ answer' = [inst |-> i, op |-> op, out |-> out, args |-> <<>>]
  /\ UNCHANGED <<service, elsewhere, flavour, objects, windowModule, waiting, http>>

ProviderInit ==
  /\ providers = <<>>
  /\ regOrder = <<>>
  /\ keyOrder = <<>>
  /\ NoRequest
  /\ flavour \in Flavours
  /\ NoObjects
  /\ http = NoExchange
  /\ ElsewhereIdle

\* every provider object constructed so far is of the class with this id
OnlyClass(id) == \A j \in Instances : objects[j].made => IdOf(j) = id

\* the classes share no state, so one run exercises objects of one class
ProviderNext ==
  \/ \E i \in Instances : OnlyClass("seshat") /\ ConstructSeshat(i)
  \/ \E i \in Instances, appId \in CredentialInputs,
        apiKey \in CredentialInputs :
       OnlyClass("mathpix") /\ ConstructMathPix(i, appId, apiKey)
  \/ \E i \in Instances, appId \in CredentialInputs,
        apiKey \in CredentialInputs : SetCredentials(i, appId, apiKey)
  \/ \E i \in Instances, ok \in BOOLEAN : ImportDone(i, ok)
  \/ \E i \in Instances, ok \in BOOLEAN : FetchDone(i, ok)
  \/ \E i \in Instances : TimerFires(i)
  \/ \E i \in Instances, ok \in BOOLEAN : LoadDone(i, ok)
  \/ \E i \in Instances, op \in Ops : CallSeshat(i, op)
  \/ \E i \in Instances, op \in Ops :
       \E out \in ShippedOutcomes(i, op) : ResolveSeshat(i, op, out)
  \/ \E i \in Instances, op \in Ops :
       \E out \in ShippedOutcomes(i, op) : CallMathPix(i, op, out)

\* the provider objects with callers of their own, without the service
ProviderSpec == ProviderInit /\ [][ProviderNext]_vars

\* ============================================ the service over the objects
\* App.tsx (initializeRecognitionService) and the RecognitionController
\* constructor build the provider objects and register them with the
\* service before requests are made; both construct a MathPixProvider only
\* when they have an appId and an apiKey
AppInit ==
  /\ providers = <<>>
  /\ regOrder = <<>>
  /\ keyOrder = <<>>
  /\ NoRequest
  /\ flavour \in Flavours
  /\ NoObjects
  /\ http = NoExchange
  /\ ElsewhereIdle

AppNext ==
  \/ \E i \in Instances : pc = "idle" /\ ConstructSeshat(i)
  \/ \E i \in Instances, appId \in CredentialInputs,
        apiKey \in CredentialInputs :
       /\ pc = "idle"
       /\ Truthy(appId) /\ Truthy(apiKey)
       /\ ConstructMathPix(i, appId, apiKey)
  \/ \E i \in Instances, ok \in BOOLEAN : ImportDone(i, ok)
  \/ \E i \in Instances, ok \in BOOLEAN : FetchDone(i, ok)
  \/ \E i \in Instances : TimerFires(i)
  \/ \E i \in Instances, ok \in BOOLEAN : LoadDone(i, ok)
  \/ \E p \in Instances :
       pc = "idle" /\ objects[p].made /\ RegisterProvider(p)
  \/ \E k \in Kinds, pid \in ProviderIdArgs : Recognize(k, pid)
  \/ pc = "explicitProbe" /\
       \E out \in AvailableOutcomes(provider) : ExplicitAvailableResolve(out)
  \/ pc = "explicitCall" /\
       \E out \in RecognizeOutcomes(provider, kind) :
         ExplicitRecognizeResolve(out)
  \/ pc = "probeWait" /\
       \E out \in AvailableOutcomes(provider) : ProbeResolve(out)
  \/ pc = "attemptWait" /\
       \E out \in RecognizeOutcomes(provider, kind) : AttemptResolve(out)
  \/ Complete

AppSpec == AppInit /\ [][AppNext]_vars

\* ===================================================== the HTTP controller
\* what a POST can carry as image: an uploaded file (req.file), a string in
\* req.body.image, nothing (absent or empty), a truthy value that is not a
\* string, or no parsed body at all
ImageInputs == {"file", "string", "empty", "nonstring", "nobody"}

\* `res.status(result.success ? 200 : 400)`
StatusOf_AlwaysOk(r) == 200

StatusOf(r) == IF r.success THEN 200 ELSE 400

\* POST /recognition/math or /recognition/text arrives: the handler runs
\* up to its call of the service, or answers 400 without an image, or its
\* catch answers 500 when reading the image raises
Handle(k, image, pid) ==
  /\ http.state = "none"
  /\ pc = "idle"
  /\ http' = [state |-> IF image \in {"file", "string"}
                        THEN "calling" ELSE "responded",
              kind |-> k, image |-> image, providerId |-> pid,
              status |-> IF image \in {"file", "string"} THEN 0
                         ELSE IF image = "empty" THEN 400 ELSE 500]
  /\ UNCHANGED <<service, elsewhere, flavour, objects, windowModule, waiting, answer>>

\* `await this.recognitionService.recognizeMath(...)` resumes: the Result
\* is sent with its status; a rejection would reach the catch
Respond ==
  /\ http.state = "calling"
  /\ pc \in {"done", "rejected"}
  /\ http' = [http EXCEPT !.state = "responded",
                          !.status = IF pc = "done" THEN StatusOf(result)
                                     ELSE 500]
  /\ UNCHANGED <<service, elsewhere, flavour, objects, windowModule, waiting, answer>>

\* the exchange is over
Finish ==
  /\ http.state = "responded"
  /\ pc = "idle"
  /\ http' = NoExchange
  /\ UNCHANGED <<service, elsewhere, flavour, objects, windowModule, waiting, answer>>

\* new RecognitionController(): the service holds a SeshatProvider and,
\* with MATHPIX_APP_ID and MATHPIX_API_KEY set, a MathPixProvider
HttpInit ==
  /\ providers \in {MapSet(<<>>, 1), MapSet(MapSet(<<>>, 1), 2)}
  /\ regOrder = providers
  /\ keyOrder = [k \in 1..Len(providers) |-> IdOf(providers[k])]
  /\ NoRequest
  /\ flavour = "none"
  /\ NoObjects
  /\ http = NoExchange
  /\ ElsewhereIdle

HttpNext ==
  \/ \E k \in Kinds, image \in ImageInputs, pid \in ProviderIdArgs :
       Handle(k, image, pid)
  \/ http.state = "calling" /\ Recognize(http.kind, http.providerId)
  \/ pc = "explicitProbe" /\
       \E out \in AvailableOutcomes(provider) : ExplicitAvailableResolve(out)
  \/ pc = "explicitCall" /\
       \E out \in RecognizeOutcomes(provider, kind) :
         ExplicitRecognizeResolve(out)
  \/ pc = "probeWait" /\
       \E out \in AvailableOutcomes(provider) : ProbeResolve(out)
  \/ pc = "attemptWait" /\
       \E out \in RecognizeOutcomes(provider, kind) : AttemptResolve(out)
  \/ Respond
  \/ http.state = "responded" /\ Complete
  \/ Finish

HttpSpec == HttpInit /\ [][HttpNext]_vars

\* ================================================== payload normalisation
\* JavaScript strings are sequences of one-character strings.
\* longest binary image, in bytes
MaxBytes == 3

\* the byte values images are made of
ByteValues == {0, 77, 255}

\* the base64 alphabet, the character at position v + 1 standing for v
Alphabet ==
  <<"A", "B", "C", "D", "E", "F", "G", "H", "I", "J", "K", "L", "M",
    "N", "O", "P", "Q", "R", "S", "T", "U", "V", "W", "X", "Y", "Z",
    "a", "b", "c", "d", "e", "f", "g", "h", "i", "j", "k", "l", "m",
    "n", "o", "p", "q", "r", "s", "t", "u", "v", "w", "x", "y", "z",
    "0", "1", "2", "3", "4", "5", "6", "7", "8", "9", "+", "/">>

\* the base64 text of a byte sequence (RFC 4648, with padding): what
\* canvas.toDataURL and FileReader.readAsDataURL put after the comma
RECURSIVE Encode(_)
Encode(bs) ==
  IF Len(bs) = 0 THEN <<>>
  ELSE IF Len(bs) = 1
  THEN <<Alphabet[(bs[1] \div 4) + 1], Alphabet[((bs[1] % 4) * 16) + 1],
         "=", "=">>
  ELSE IF Len(bs) = 2
  THEN <<Alphabet[(bs[1] \div 4) + 1],
         Alphabet[((bs[1] % 4) * 16) + (bs[2] \div 16) + 1],
         Alphabet[((bs[2] % 16) * 4) + 1], "=">>
  ELSE <<Alphabet[(bs[1] \div 4) + 1],
         Alphabet[((bs[1] % 4) * 16) + (bs[2] \div 16) + 1],
         Alphabet[((bs[2] % 16) * 4) + (bs[3] \div 64) + 1],
         Alphabet[(bs[3] % 64) + 1]>> \o Encode(SubSeq(bs, 4, Len(bs)))

\* the media types of the data URIs
Mimes ==
  {<<"i", "m", "a", "g", "e", "/", "p", "n", "g">>,
   <<"i", "m", "a", "g", "e", "/", "j", "p", "e", "g">>,
   <<"i", "m", "a", "g", "e", "/", "s", "v", "g", "+", "x", "m", "l">>}

DataPrefix == <<"d", "a", "t", "a", ":">>

Base64Marker == <<";", "b", "a", "s", "e", "6", "4", ",">>

\* the imageData argument made from a payload: a bare base64 string, a
\* data URI, or a binary value (Blob, File, Buffer)
ImageData(p) ==
  IF p.type = "base64" THEN Encode(p.bytes)
  ELSE IF p.type = "dataURI"
  THEN DataPrefix \o p.mime \o Base64Marker \o Encode(p.bytes)
  ELSE p.bytes

\* String.prototype.startsWith
StartsWith(str, prefix) ==
  Len(str) >= Len(prefix) /\ SubSeq(str, 1, Len(prefix)) = prefix

\* str.substring(n)
Drop(str, n) == SubSeq(str, n + 1, Len(str))

\* position of the first c in str, Len(str) + 1 when there is none
RECURSIVE IndexOfChar(_, _)
IndexOfChar(str, c) ==
  IF Len(str) = 0 \/ str[1] = c THEN 1
  ELSE 1 + IndexOfChar(Tail(str), c)

\* str.split(',')[1]: the text between the first and the second comma,
\* undefined when there is no comma
SplitSecond(str) ==
  IF IndexOfChar(str, ",") > Len(str) THEN Undef
  ELSE LET rest == Drop(str, IndexOfChar(str, ","))
       IN SubSeq(rest, 1, IndexOfChar(rest, ",") - 1)

\* the value of a base64 character, -1 for any other character
Unbase64(c) ==
  IF \E v \in 1..Len(Alphabet) : Alphabet[v] = c
  THEN (CHOOSE v \in 1..Len(Alphabet) : Alphabet[v] = c) - 1
  ELSE -1

\* the bytes of a sequence of 6-bit values; leftover bits are dropped
RECURSIVE BytesOf(_)
BytesOf(vs) ==
  IF Len(vs) < 2 THEN <<>>
  ELSE IF Len(vs) = 2
  THEN <<(vs[1] * 4) + (vs[2] \div 16)>>
  ELSE IF Len(vs) = 3
  THEN <<(vs[1] * 4) + (vs[2] \div 16),
         ((vs[2] % 16) * 16) + (vs[3] \div 4)>>
  ELSE <<(vs[1] * 4) + (vs[2] \div 16),
         ((vs[2] % 16) * 16) + (vs[3] \div 4),
         ((vs[3] % 4) * 64) + vs[4]>> \o BytesOf(SubSeq(vs, 5, Len(vs)))

ValuesOf(str) == [k \in 1..Len(str) |-> Unbase64(str[k])]

\* atob with its padding removed: one or two "=" at the end of a text
\* whose length is a multiple of four
Unpadded(str) ==
  IF Len(str) % 4 = 0 /\ Len(str) > 0 /\ str[Len(str)] = "="
  THEN IF str[Len(str) - 1] = "="
       THEN SubSeq(str, 1, Len(str) - 2)
       ELSE SubSeq(str, 1, Len(str) - 1)
  ELSE str

\* atob raises InvalidCharacterError: a character outside the alphabet or
\* a length of 4n + 1; atob(undefined) is atob("undefined")
AtobThrows(str) ==
  LET t == Unpadded(SelectSeq(str, LAMBDA c : c # " ")) IN
  \/ Len(t) % 4 = 1
  \/ \E k \in 1..Len(t) : Unbase64(t[k]) < 0

Atob(str) == BytesOf(ValuesOf(Unpadded(SelectSeq(str, LAMBDA c : c # " "))))

UndefinedText == <<"u", "n", "d", "e", "f", "i", "n", "e", "d">>

\* Buffer.from(str, 'base64') never raises: characters outside the
\* alphabet are skipped and the first "=" ends the text; "-" and "_" count
\* as "+" and "/"
RECURSIVE NodeValues(_)
NodeValues(str) ==
  IF Len(str) = 0 \/ str[1] = "=" THEN <<>>
  ELSE IF str[1] = "-" THEN <<62>> \o NodeValues(Tail(str))
  ELSE IF str[1] = "_" THEN <<63>> \o NodeValues(Tail(str))
  ELSE IF Unbase64(str[1]) >= 0
  THEN <<Unbase64(str[1])>> \o NodeValues(Tail(str))
  ELSE NodeValues(Tail(str))

BufferFrom(str) == BytesOf(NodeValues(str))

\* the outcome of a normalisation
Bytes(by, bs) == [by |-> by, threw |-> FALSE, bytes |-> bs]

Raised(by) == [by |-> by, threw |-> TRUE, bytes |-> <<>>]

\* frontend SeshatProvider.preprocessImage(imageData)
FrontendPreprocess(p) ==
  IF p.type = "binary" THEN Bytes("frontend", ImageData(p))
  ELSE LET str == ImageData(p)
           text == IF StartsWith(str, DataPrefix)
                   THEN IF SplitSecond(str) = Undef THEN UndefinedText
                        ELSE SplitSecond(str)
                   ELSE str
       IN IF AtobThrows(text) THEN Raised("frontend")
          ELSE Bytes("frontend", Atob(text))

\* backend SeshatProvider.preprocessImage(imageData); Buffer.from(undefined,
\* 'base64') raises a TypeError
BackendPreprocess(p) ==
  IF p.type = "binary" THEN Bytes("backend", ImageData(p))
  ELSE LET str == ImageData(p) IN
       IF StartsWith(str, DataPrefix)
       THEN IF SplitSecond(str) = Undef THEN Raised("backend")
            ELSE Bytes("backend", BufferFrom(SplitSecond(str)))
       ELSE Bytes("backend", BufferFrom(str))

\* characters matched by \w
IsWordChar(c) == c = "_" \/ (Unbase64(c) >= 0 /\ c \notin {"+", "/"})

\* number of \w characters str begins with
RECURSIVE WordRun(_)
WordRun(str) ==
  IF Len(str) = 0 \/ ~IsWordChar(str[1]) THEN 0
  ELSE 1 + WordRun(Tail(str))

ImagePrefix == DataPrefix \o <<"i", "m", "a", "g", "e", "/">>

\* str.replace(/^data:image\/\w+;base64,/, '')
StripPrefix(str) ==
  IF StartsWith(str, ImagePrefix)
  THEN LET rest == Drop(str, Len(ImagePrefix))
           w == WordRun(rest)
       IN IF w >= 1 /\ StartsWith(Drop(rest, w), Base64Marker)
          THEN Drop(rest, w + Len(Base64Marker))
          ELSE str
  ELSE str

\* the controller's reading of the image (req.file.buffer, or
\* req.body.image stripped and decoded), which the backend provider's
\* preprocessImage then passes through as a Buffer
ControllerNormalize(p) ==
  IF p.type = "binary" THEN Bytes("controller", ImageData(p))
  ELSE Bytes("controller", BufferFrom(StripPrefix(ImageData(p))))

\* the images callers hand over
RECURSIVE ByteSeqs(_)
ByteSeqs(n) ==
  IF n = 0 THEN {<<>>}
  ELSE ByteSeqs(n - 1) \cup
       {Append(bs, b) : bs \in {x \in ByteSeqs(n - 1) : Len(x) = n - 1},
                        b \in ByteValues}

Payloads ==
  {[type |-> "base64", bytes |-> bs, mime |-> <<>>] :
     bs \in ByteSeqs(MaxBytes)} \cup
  {[type |-> "binary", bytes |-> bs, mime |-> <<>>] :
     bs \in ByteSeqs(MaxBytes)} \cup
  {[type |-> "dataURI", bytes |-> bs, mime |-> m] :
     bs \in ByteSeqs(MaxBytes), m \in Mimes}

\* a caller hands an image to one of the normalisations
Normalize(out) ==
  /\ normalized = NotNormalized
  /\ normalized' = out
  /\ UNCHANGED <<service, flavour, objects, windowModule, waiting, answer,
                 http, payload, env, ui>>

PayloadInit ==
  /\ providers = <<>>
  /\ regOrder = <<>>
  /\ keyOrder = <<>>
  /\ NoRequest
  /\ flavour = "none"
  /\ NoObjects
  /\ http = NoExchange
  /\ payload \in Payloads
  /\ normalized = NotNormalized
  /\ env = NoCredentials
  /\ ui = NoUi

PayloadNext ==
  \/ Normalize(FrontendPreprocess(payload))
  \/ Normalize(BackendPreprocess(payload))
  \/ Normalize(ControllerNormalize(payload))

PayloadSpec == PayloadInit /\ [][PayloadNext]_vars

\* ===================================================== the shipped wiring
\* `if (process.env.MATHPIX_APP_ID && process.env.MATHPIX_API_KEY)` of the
\* controller, `if (mathpixCredentials.appId && mathpixCredentials.apiKey)`
\* of App.tsx
WithMathPix_Either(e) == Truthy(e.appId) \/ Truthy(e.apiKey)

WithMathPix(e) == Truthy(e.appId) /\ Truthy(e.apiKey)

\* the constructor / the effect has registered everything it registers
Wired ==
  /\ MapHas(providers, "seshat")
  /\ WithMathPix(env) => MapHas(providers, "mathpix")

\* the credentials change (the user edits the fields of App.tsx, the
\* server is started again with another environment): a new service is
\* built with new provider objects and replaces the one in use
Rewire(appId, apiKey) ==
  /\ pc = "idle"
  /\ Wired
  /\ env' = [appId |-> appId, apiKey |-> apiKey]
  /\ providers' = <<>>
  /\ regOrder' = <<>>
  /\ keyOrder' = <<>>
  /\ displaced' = {}
  /\ objects' = [i \in Instances |-> NoObject]
  /\ waiting' = [i \in Instances |-> {}]
  /\ answer' = NoAnswer
  /\ UNCHANGED <<reqVars, regSince, startProviders, writes, flavour,
                 windowModule, http, payload, normalized, ui>>

WiredInit ==
  /\ providers = <<>>
  /\ regOrder = <<>>
  /\ keyOrder = <<>>
  /\ NoRequest
  /\ flavour \in Flavours
  /\ NoObjects
  /\ http = NoExchange
  /\ payload = NoPayload
  /\ normalized = NotNormalized
  /\ env \in [appId : CredentialInputs, apiKey : CredentialInputs]
  /\ ui = NoUi

WiredNext ==
  \/ providers = <<>> /\ ConstructSeshat(1)
  \/ providers = <<>> /\ objects[1].made /\ RegisterProvider(1)
  \/ providers = <<1>> /\ WithMathPix(env) /\
       ConstructMathPix(2, env.appId, env.apiKey)
  \/ providers = <<1>> /\ objects[2].made /\ RegisterProvider(2)
  \/ \E i \in Instances, ok \in BOOLEAN : ImportDone(i, ok)
  \/ \E i \in Instances, ok \in BOOLEAN : FetchDone(i, ok)
  \/ \E i \in Instances : TimerFires(i)
  \/ \E i \in Instances, ok \in BOOLEAN : LoadDone(i, ok)
  \/ \E k \in Kinds, pid \in ProviderIdArgs : Wired /\ Recognize(k, pid)
  \/ pc = "explicitProbe" /\
       \E out \in AvailableOutcomes(provider) : ExplicitAvailableResolve(out)
  \/ pc = "explicitCall" /\
       \E out \in RecognizeOutcomes(provider, kind) :
         ExplicitRecognizeResolve(out)
  \/ pc = "probeWait" /\
       \E out \in AvailableOutcomes(provider) : ProbeResolve(out)
  \/ pc = "attemptWait" /\
       \E out \in RecognizeOutcomes(provider, kind) : AttemptResolve(out)
  \/ Complete
  \/ \E appId \in CredentialInputs, apiKey \in CredentialInputs :
       Rewire(appId, apiKey)

WiredSpec == WiredInit /\ [][WiredNext]_vars

\* ======================================================= the busy flag
\* useRecognition (isLoading, error) and App.handleImageCapture
\* (isRecognizing, recognitionError) start requests and keep a busy flag.
\* requests one component starts
MaxRequests == 3

\* how a request can end for the component: a Result with success=true, a
\* Result with success=false that still has latex or text, a Result with
\* success=false and nothing else, an exception
UiOutcomes == {"success", "degraded", "failure", "raised"}

ServiceMissingMessage == "recognition service is not initialized"

RecognitionFailedMessage == "Recognition failed"

\* the message of the exception the awaited call raised
RaisedMessage == "error.message"

\* the error state after a request has ended
ErrorAfter(component, outcome, old) ==
  IF outcome = "raised" THEN RaisedMessage
  ELSE IF outcome = "failure" THEN RecognitionFailedMessage
  ELSE IF component = "app" THEN Null
  ELSE IF outcome = "degraded" THEN RecognitionFailedMessage
  ELSE old

\* App.tsx: initializeRecognitionService has called setRecognitionService
ServiceReady ==
  /\ ui.component = "app"
  /\ ~ui.serviceSet
  /\ ui' = [ui EXCEPT !.serviceSet = TRUE]
  /\ UNCHANGED <<service, flavour, objects, windowModule, waiting, answer,
                 http, payload, normalized, env>>

\* recognizeMath / recognizeText of the hook, handleImageCapture of App,
\* up to the await: the flag is set and the error cleared;
\* handleImageCapture without a service only sets the error
UiStart(k) ==
  /\ ui.component # "none"
  /\ Len(ui.requests) < MaxRequests
  /\ ui' = IF ui.serviceSet
           THEN [ui EXCEPT !.isLoading = TRUE,
                           !.error = Null,
                           !.requests = Append(@, [stage |-> "inflight",
                                                   kind |-> k,
                                                   outcome |-> "none"])]
           ELSE [ui EXCEPT !.error = ServiceMissingMessage]
  /\ UNCHANGED <<service, flavour, objects, windowModule, waiting, answer,
                 http, payload, normalized, env>>

\* the await of request r resumes; the finally block clears the flag
UiSettle(r, outcome) ==
  /\ r \in 1..Len(ui.requests)
  /\ ui.requests[r].stage = "inflight"
  /\ ui' = [ui EXCEPT !.isLoading = FALSE,
                      !.error = ErrorAfter(ui.component, outcome, @),
                      !.requests[r] = [stage |-> "settled",
                                       kind |-> ui.requests[r].kind,
                                       outcome |-> outcome]]
  /\ UNCHANGED <<service, flavour, objects, windowModule, waiting, answer,
                 http, payload, normalized, env>>

UiInit ==
  /\ providers = <<>>
  /\ regOrder = <<>>
  /\ keyOrder = <<>>
  /\ NoRequest
  /\ flavour = "none"
  /\ NoObjects
  /\ http = NoExchange
  /\ payload = NoPayload
  /\ normalized = NotNormalized
  /\ env = NoCredentials
  /\ ui \in {[NoUi EXCEPT !.component = c, !.serviceSet = (c = "hook")] :
               c \in {"hook", "app"}}

UiNext ==
  \/ ServiceReady
  \/ \E k \in Kinds : UiStart(k)
  \/ \E r \in 1..MaxRequests, outcome \in UiOutcomes : UiSettle(r, outcome)

UiSpec == UiInit /\ [][UiNext]_vars

\* =================================================================== claims
\* the availability probes and the recognition calls of the request
Probes == SelectSeq(calls, LAMBDA c : c.op = "isAvailable")

Attempts == SelectSeq(calls, LAMBDA c : c.op # "isAvailable")

\* the call resolved to a Result with success=true
Succeeded(c) == c.out.status = "returned" /\ c.out.result.success

\* the call resolved to a failure or raised
Failed(c) ==
  \/ c.out.status = "threw"
  \/ c.out.status = "returned" /\ ~c.out.result.success

\* the message a failed call supplied
MessageOf(c) ==
  IF c.out.status = "threw" THEN c.out.message ELSE c.out.result.error

\* a request called without providerId: as everywhere in the repository
\* (`if (providerId)`, "если указан"), an empty id counts as not given
NoIdRequest == pc # "idle" /\ ~Truthy(providerId)

\* a request called with a providerId
ExplicitRequest == pc # "idle" /\ Truthy(providerId)

\* C1: without a providerId, the Result returned is that of the first
\* candidate, in candidate order, whose kind-specific call succeeded, and
\* once a call has succeeded the request makes no further provider call.
C1_FirstSuccessWins ==
  NoIdRequest =>
    /\ \A k \in 1..Len(Attempts) :
         /\ Attempts[k].inst = availableProviders[k]
         /\ Attempts[k].op = MethodOf(kind)
         /\ Succeeded(Attempts[k]) =>
              /\ k = Len(Attempts)
              /\ calls[Len(calls)] = Attempts[k]
              /\ pc = "done"
              /\ result = Attempts[k].out.result
    /\ (pc = "done" /\ result.success) =>
         (Len(Attempts) > 0 /\ Succeeded(Attempts[Len(Attempts)]))

\* [A(succeeds), B(succeeds or not)]: A answered, B was never invoked
C1_Witness ==
  /\ NoIdRequest /\ pc = "done"
  /\ Len(availableProviders) = 2
  /\ Len(Attempts) = 1
  /\ Succeeded(Attempts[1])
  /\ result = Attempts[1].out.result

\* C2: with two candidates [A, B], A and B different providers, and no
\* providerId, after A failed (returned success=false or raised) B is tried,
\* and when B succeeds the Result is exactly B's and does not carry A's error
\* message.
C2_FallbackAfterFailure ==
  (NoIdRequest /\ pc = "done" /\ Len(availableProviders) = 2
     /\ availableProviders[1] # availableProviders[2]
     /\ Len(Attempts) >= 1 /\ Failed(Attempts[1])) =>
    /\ Len(Attempts) = 2
    /\ Attempts[2].inst = availableProviders[2]
    /\ Succeeded(Attempts[2]) =>
         /\ result = Attempts[2].out.result
         /\ Truthy(MessageOf(Attempts[1])) =>
              result.error # MessageOf(Attempts[1])

C2_Witness ==
  /\ NoIdRequest /\ pc = "done"
  /\ Len(Attempts) = 2
  /\ Failed(Attempts[1]) /\ Truthy(MessageOf(Attempts[1]))
  /\ Succeeded(Attempts[2])
  /\ result = Attempts[2].out.result

\* C3: without a providerId, when every candidate failed the Result is
\* {success:false, confidence:0, error:e}; if every candidate supplied a
\* message, e is the message of the last candidate tried, and e is the generic
\* message only when the last candidate tried supplied none.
C3_LastErrorWins ==
  (NoIdRequest /\ pc = "done" /\ Len(availableProviders) > 0
     /\ \A k \in 1..Len(Attempts) : Failed(Attempts[k])) =>
    /\ Len(Attempts) = Len(availableProviders)
    /\ \E e \in {AllFailedMessage} \cup {MessageOf(Attempts[k]) : k \in 1..Len(Attempts)} :
         result = FailureResult(e)
    /\ (\A k \in 1..Len(Attempts) : Truthy(MessageOf(Attempts[k]))) =>
         result.error = MessageOf(Attempts[Len(Attempts)])
    /\ result.error = AllFailedMessage =>
         ~Truthy(MessageOf(Attempts[Len(Attempts)]))

\* [A(error of A), B(error of B)] yields the error of B
C3_Witness ==
  /\ NoIdRequest /\ pc = "done"
  /\ Len(Attempts) = 2
  /\ \A k \in 1..2 : Failed(Attempts[k]) /\ Truthy(MessageOf(Attempts[k]))
  /\ MessageOf(Attempts[1]) # MessageOf(Attempts[2])
  /\ result.error = MessageOf(Attempts[2])

\* the call as if a raising provider had returned {success:false, error:msg}
AsReturnedFailure(c) ==
  IF c.out.status = "threw"
  THEN [c EXCEPT !.out = Returned([NoResult EXCEPT !.error = c.out.message])]
  ELSE c

\* the Result of the fallback over calls that all returned: the first success,
\* else the failure with the last message
RECURSIVE ExpectedResult(_, _, _)
ExpectedResult(as, k, le) ==
  IF k > Len(as)
  THEN FailureResult(IF Truthy(le) THEN le ELSE AllFailedMessage)
  ELSE IF as[k].out.result.success
  THEN as[k].out.result
  ELSE ExpectedResult(as, k + 1, as[k].out.result.error)

\* C4: without a providerId, a candidate whose call raises is a failed
\* attempt: its message becomes lastError, the later candidates are still
\* tried in order, and the final Result is the one the request would have
\* produced had the candidate returned {success:false, error:<message>}.
C4_ThrowIsFailedAttempt ==
  (NoIdRequest /\ \E k \in 1..Len(Attempts) : Attempts[k].out.status = "threw") =>
    /\ \A k \in 1..Len(Attempts) :
         /\ Attempts[k].inst = availableProviders[k]
         /\ (Attempts[k].out.status = "threw"
               /\ (k = Len(Attempts) \/ Attempts[k + 1].out.status = "pending")) =>
              lastError = Attempts[k].out.message
    /\ pc = "done" =>
         /\ result = ExpectedResult([k \in 1..Len(Attempts) |->
                                       AsReturnedFailure(Attempts[k])], 1, Undef)
         /\ (\A k \in 1..Len(Attempts) : Failed(Attempts[k])) =>
              Len(Attempts) = Len(availableProviders)

\* the first of two candidates raised, the second was still tried
C4_Witness ==
  /\ NoIdRequest /\ pc = "done"
  /\ Len(Attempts) = 2
  /\ Attempts[1].out.status = "threw" /\ Truthy(Attempts[1].out.message)
  /\ Attempts[2].out.status = "returned"

\* C5: without a providerId, when no provider is registered or no registered
\* provider reports itself available, recognizeMath and recognizeText
\* return {success:false, confidence:0, error:"No available recognition
\* providers"} and no recognition method is invoked.
C5_NoAvailableProviders ==
  (NoIdRequest /\ pc = "done"
     /\ \A k \in 1..Len(Probes) : Probes[k].out # Resolved(TRUE)) =>
    /\ result = FailureResult(NoProvidersMessage)
    /\ Attempts = <<>>

\* two providers registered, neither available, a text request
C5_Witness ==
  /\ NoIdRequest /\ pc = "done" /\ kind = "text"
  /\ Len(Probes) = 2
  /\ Probes[1].out = Resolved(FALSE)
  /\ Probes[2].out = Resolved(FALSE)
  /\ result = FailureResult(NoProvidersMessage)

\* the provider the providerId argument named when the request started
Named == MapGet(startProviders, providerId)

\* C6: a providerId naming a registered provider whose isAvailable()
\* resolved false: the call fails with "Provider <name> is not available",
\* that check is the only provider call of the request (no recognition
\* method, no availability check of another provider).
C6_ExplicitUnavailable ==
  (ExplicitRequest /\ MapHas(startProviders, providerId) /\ Len(calls) >= 1
     /\ calls[1].out = Resolved(FALSE)) =>
    /\ pc = "done"
    /\ calls = <<[inst |-> Named, op |-> "isAvailable", out |-> Resolved(FALSE)]>>
    /\ result = FailureResult(NotAvailableMessage(Named))

\* the named provider is unavailable while another provider is registered
C6_Witness ==
  /\ ExplicitRequest /\ pc = "done"
  /\ Len(startProviders) = 2
  /\ calls = <<[inst |-> Named, op |-> "isAvailable", out |-> Resolved(FALSE)]>>
  /\ result = FailureResult(NotAvailableMessage(Named))

\* C7: a providerId that is not a key of the registry: the call fails with
\* {success:false, confidence:0, error:"Provider with id <id> not found"}
\* and makes no provider call at all.
C7_ProviderNotFound ==
  (ExplicitRequest /\ ~MapHas(startProviders, providerId)) =>
    /\ pc = "done"
    /\ calls = <<>>
    /\ result = FailureResult(NotFoundMessage(providerId))

\* an unknown id while providers are registered
C7_Witness ==
  /\ ExplicitRequest /\ pc = "done"
  /\ ~MapHas(startProviders, providerId)
  /\ Len(startProviders) = 2
  /\ result = FailureResult(NotFoundMessage(providerId))

\* C8: a providerId naming a registered provider whose isAvailable()
\* resolved true: the provider's kind-specific method is invoked exactly
\* once, no other provider is invoked, and the Result the method returns is
\* the Result of the call, field for field, also when success=false.
C8_ExplicitIsAuthoritative ==
  (ExplicitRequest /\ MapHas(startProviders, providerId) /\ Len(calls) >= 1
     /\ calls[1].out = Resolved(TRUE)) =>
    /\ Len(calls) = 2
    /\ calls[1].inst = Named /\ calls[1].op = "isAvailable"
    /\ calls[2].inst = Named /\ calls[2].op = MethodOf(kind)
    /\ pc = "done" <=> calls[2].out.status # "pending"
    /\ calls[2].out.status = "returned" => result = calls[2].out.result

\* a failure of the named provider, confidence and message included, is
\* handed back although another provider is registered
C8_Witness ==
  /\ ExplicitRequest /\ pc = "done"
  /\ Len(startProviders) = 2
  /\ Len(calls) = 2
  /\ calls[2].out.status = "returned"
  /\ ~calls[2].out.result.success
  /\ calls[2].out.result.confidence = 1
  /\ result = calls[2].out.result

\* the instances of a sequence of calls
InstancesOf(cs) == [k \in 1..Len(cs) |-> cs[k].inst]

\* C9: without a providerId, availableProviders is exactly the probed
\* providers whose isAvailable() resolved true, in probe order, and the
\* probes cover the registered providers in registration order; a provider
\* is asked to recognize only after its check resolved true, and a raising
\* check neither ends the request nor the probing.
C9_CandidateSet ==
  NoIdRequest =>
    /\ availableProviders =
         InstancesOf(SelectSeq(Probes, LAMBDA c : c.out = Resolved(TRUE)))
    /\ \A k \in 1..Len(Attempts) :
         \E j \in 1..Len(Probes) :
           Probes[j].inst = Attempts[k].inst /\ Probes[j].out = Resolved(TRUE)
    /\ (pc \in {"attemptWait", "done"} /\ writes = 0) =>
         InstancesOf(Probes) = startProviders
    /\ (pc = "done" /\ Len(availableProviders) > 0) => Len(Attempts) > 0

\* the first provider's check raised, the second was still probed and tried
C9_Witness ==
  /\ NoIdRequest /\ pc = "done" /\ writes = 0
  /\ Len(Probes) = 2
  /\ Probes[1].out.status = "threw"
  /\ Probes[2].out = Resolved(TRUE)
  /\ InstancesOf(Attempts) = <<Probes[2].inst>>

\* C10: registerProvider with an id already present replaces the provider:
\* getAllProviders keeps its length, getProvider(id) returns the new
\* instance, the replaced instance is returned by neither, and no request
\* started after the replacement invokes it.
C10_RegisterReplaces ==
  /\ [][\A p \in Instances :
          (RegisterProvider(p) /\ MapHas(providers, IdOf(p))) =>
            /\ Len(providers') = Len(providers)
            /\ MapGet(providers', IdOf(p)) = p
            /\ MapGet(providers, IdOf(p)) # p =>
                 \A k \in 1..Len(providers') :
                   providers'[k] # MapGet(providers, IdOf(p))]_vars
  /\ [](\A q \in displaced :
          /\ MapGet(providers, IdOf(q)) # q
          /\ \A k \in 1..Len(providers) : providers[k] # q
          /\ q \notin regSince =>
               \A k \in 1..Len(calls) : calls[k].inst # q)

\* a request started after a replacement ran on the new instance
C10_Witness ==
  /\ pc = "done"
  /\ \E q \in displaced :
       /\ q \notin regSince
       /\ MapHas(startProviders, IdOf(q))
       /\ \E k \in 1..Len(Attempts) :
            Attempts[k].inst = MapGet(startProviders, IdOf(q))

\* ------------------------------------------------------------------- C11
\* getAllProviders(): Array.from(this.providers.values())
GetAllProviders == providers

\* the ids of a sequence of instances
IdsOf(m) == [k \in 1..Len(m) |-> IdOf(m[k])]

\* C11 as stated: getAllProviders lists the providers in ascending order of
\* the time of the registration that put each current instance into the
\* registry, also when a present id was registered again after others.
C11_OrderByInstanceRegistration == GetAllProviders = regOrder

\* C11, amended: getAllProviders lists the providers in ascending order of
\* the time at which each id became present (its first registration since
\* it was last absent); registering a present id again puts the new
\* instance in the place of the old one and moves nothing.
C11_OrderByKeyInsertion ==
  /\ IdsOf(GetAllProviders) = keyOrder
  /\ Range(GetAllProviders) = Range(regOrder)

\* an id was registered again after another provider had been registered:
\* its new instance is listed first although it was registered last
C11_Witness ==
  /\ Len(GetAllProviders) = 2
  /\ regOrder = <<GetAllProviders[2], GetAllProviders[1]>>
  /\ GetAllProviders[1] \in {q \in Instances : \E d \in displaced : IdOf(d) = IdOf(q)}

\* ------------------------------------------------------------------- C12
\* the provider calls of the request that have not resolved or raised yet
InFlight == {k \in 1..Len(calls) : calls[k].out = Pending}

\* C12: within one request the provider operations are issued strictly one
\* at a time: at most one call is in flight, it is the last one issued, and
\* so every call starts only after all earlier calls resolved or raised.
C12_OneAtATime ==
  /\ InFlight \subseteq {Len(calls)}
  /\ Running => (InFlight = {Len(calls)} /\ calls[Len(calls)].inst = provider)
  /\ ~Running => InFlight = {}

\* the call on the second candidate is in flight after both probes and the
\* call on the first candidate have resolved or raised
C12_Witness ==
  /\ pc = "attemptWait"
  /\ attempt = 2
  /\ Len(calls) >= 4
  /\ InFlight = {Len(calls)}
  /\ Failed(calls[Len(calls) - 1])

\* ------------------------------------------------------------------- C13
\* the Result is the one a provider's kind-specific call returned
FromProvider(r) ==
  \E k \in 1..Len(calls) :
    /\ calls[k].op = MethodOf(kind)
    /\ calls[k].out.status = "returned"
    /\ r = calls[k].out.result

\* C13: recognizeMath and recognizeText never raise to the caller: whatever
\* the registry holds, whatever providerId is passed and whether the
\* providers return or raise, the promise is never rejected, a running call
\* waits on nothing but a provider call, and the call resolves to a Result;
\* a failure inside the service appears only as
\* {success: false, confidence: 0, error: <message>}.
C13_NeverRaises ==
  /\ pc # "rejected"
  /\ Running => InFlight # {}
  /\ pc = "done" =>
       /\ \/ FromProvider(result)
          \/ result = FailureResult(result.error) /\ result.error # Undef
       /\ (Len(calls) > 0 /\ calls[Len(calls)].out.status = "threw"
             /\ ExplicitRequest) =>
            result = FailureResult(calls[Len(calls)].out.message)
       /\ (Len(calls) = 0 /\ ExplicitRequest) =>
            result = FailureResult(NotFoundMessage(providerId))

\* the named provider's call raised and the caller got a failure Result
C13_Witness ==
  /\ pc = "done"
  /\ ExplicitRequest
  /\ Len(calls) = 2
  /\ calls[2].out.status = "threw"
  /\ result = FailureResult(calls[2].out.message)

\* ------------------------------------------------------------------- C14
\* the provider objects constructed so far
Made == {i \in Instances : objects[i].made}

\* an internal failure of SeshatProvider.recognizeMath / recognizeText: the
\* engine is not initialized, the payload cannot be preprocessed, the
\* engine raises
SeshatFailure(o, payloadOk, engine) ==
  \/ o.initializationPromise = "rejected"
  \/ ~o.isInitialized
  \/ o.seshatInstance = "null"
  \/ ~payloadOk
  \/ engine.threw

\* an internal failure of MathPixProvider.recognizeMath / recognizeText:
\* credentials are missing, the payload cannot be converted, the network
\* or the remote service fails
MathPixFailure(o, payloadOk, resp) ==
  \/ ~IsSet(o.appId)
  \/ ~IsSet(o.apiKey)
  \/ ~payloadOk
  \/ resp.threw
  \/ ~resp.ok

\* the Results object i gives now when the call meets an internal failure
FailureResults(i, k) ==
  IF IsMathPix(i)
  THEN {MathPixResult(k, objects[i], x[1], x[2]) :
          x \in {y \in BOOLEAN \X MathPixResponses :
                   MathPixFailure(objects[i], y[1], y[2])}}
  ELSE IF AwaitsInitialize(objects[i])
  THEN {}
  ELSE {SeshatResult(flavour, k, objects[i], x[1], x[2], x[3]) :
          x \in {y \in BOOLEAN \X EngineOutputs \X ApiResponses(k) :
                   SeshatFailure(objects[i], y[1], y[2])}}

\* recognizeMath / recognizeText of no provider object raises
NeverRaises ==
  /\ \A i \in Made, k \in Kinds :
       \A out \in ShippedRecognizeOutcomes(i, k) : out.status = "returned"
  /\ answer.op \in {"recognizeMath", "recognizeText"} =>
       answer.out.status = "returned"

Hung(i) ==
  /\ IsSeshat(i)
  /\ objects[i].made
  /\ objects[i].initializationPromise = "pending"
  /\ objects[i].exec = "ended"

\* C15: every call of isAvailable, recognizeMath and recognizeText on every
\* SeshatProvider object eventually resolves, whether the object was
\* constructed before the engine module was loaded or after another object
\* had loaded it. Stated so that a finite run decides it: a call suspended
\* in an object can resolve now, or the initialization it awaits still has
\* a step to take.
C15_EveryCallResolves ==
  \A i \in Instances : \A op \in waiting[i] :
    ShippedOutcomes(i, op) # {} \/ objects[i].exec # "ended"

\* ------------------------------------------------------------------- C16
\* C16: for one SeshatProvider object, the constructor's call of
\* initialize() and any interleaving of isAvailable / recognizeMath /
\* recognizeText calls made before the initialization has completed start
\* the load exactly once, and every caller awaits the one promise: no call
\* resumes while it is pending, every call can resume once it has settled.
C16_SingleLoad ==
  \A i \in Made : IsSeshat(i) =>
    /\ objects[i].loads = 1
    /\ \A op \in waiting[i] :
         (ShippedOutcomes(i, op) # {}) <=>
           (objects[i].initializationPromise \in {"fulfilled", "rejected"})

\* three calls are suspended in an object whose single load is under way
C16_Witness ==
  \E i \in Made :
    /\ waiting[i] = Ops
    /\ objects[i].initializationPromise = "pending"
    /\ objects[i].exec \in {"import", "fetch", "timer", "load"}
    /\ objects[i].loads = 1

\* ------------------------------------------------------------------- C18
\* what isAvailable() of object i has to answer
Ready(i) ==
  IF IsMathPix(i)
  THEN IsSet(objects[i].appId) /\ IsSet(objects[i].apiKey)
  ELSE objects[i].initializationPromise = "fulfilled"

\* C18: isAvailable() never raises and reflects readiness: for
\* MathPixProvider it answers true exactly when both appId and apiKey are
\* non-empty, after any constructor config and any setCredentials calls;
\* for SeshatProvider it answers true exactly when the initialization has
\* completed, and false when the initialization failed.
C18_AvailableReflectsReadiness ==
  /\ \A i \in Made : \A out \in ShippedAvailableOutcomes(i) :
       out.status = "returned" /\ out.avail = Ready(i)
  /\ answer.op = "isAvailable" =>
       /\ answer.out.status = "returned"
       /\ answer.out.avail = Ready(answer.inst)
  /\ \A i \in Made : IsMathPix(i) =>
       /\ objects[i].appId \in {Null, "credential"}
       /\ objects[i].apiKey \in {Null, "credential"}

\* isAvailable() of a MathPixProvider that has an appId and no apiKey
\* answered false
C18_Witness ==
  /\ answer.op = "isAvailable"
  /\ IsMathPix(answer.inst)
  /\ IsSet(objects[answer.inst].appId)
  /\ ~IsSet(objects[answer.inst].apiKey)
  /\ answer.out = Resolved(FALSE)

\* ------------------------------------------------------------------- C17
\* C17 as stated: every Result the service returns over the shipped
\* providers has, when success=true, the field of the requested kind
\* (latex for a math request, text for a text request) and, when
\* success=false, a non-empty error.
C17_KindFieldPresent ==
  pc = "done" =>
    /\ result.success =>
         IF kind = "math" THEN IsSet(result.latex) ELSE IsSet(result.text)
    /\ ~result.success => IsSet(result.error)

\* C17, amended: every Result the service returns over the shipped
\* providers has, when success=true, recognised content: latex or text for
\* a math request, text for a text request; and, when success=false, a
\* non-empty error.
C17_ContentPresent ==
  pc = "done" =>
    /\ result.success =>
         IF kind = "math"
         THEN IsSet(result.latex) \/ IsSet(result.text)
         ELSE IsSet(result.text)
    /\ ~result.success => IsSet(result.error)

\* a math request answered by MathPixProvider with text and no latex
C17_Witness ==
  /\ pc = "done"
  /\ kind = "math"
  /\ result.success
  /\ result.latex = Null
  /\ IsSet(result.text)
  /\ IsMathPix(calls[Len(calls)].inst)

\* ------------------------------------------------------------------- C20
\* a step of the running request itself
RequestStep ==
  \/ pc = "explicitProbe" /\
       \E out \in AvailableOutcomes(provider) : ExplicitAvailableResolve(out)
  \/ pc = "explicitCall" /\
       \E out \in RecognizeOutcomes(provider, kind) :
         ExplicitRecognizeResolve(out)
  \/ pc = "probeWait" /\
       \E out \in AvailableOutcomes(provider) : ProbeResolve(out)
  \/ pc = "attemptWait" /\
       \E out \in RecognizeOutcomes(provider, kind) : AttemptResolve(out)

\* C20: each provider call is bounded by a deadline: a call that never
\* resolves counts as a failed attempt once the deadline has passed and
\* the request goes on, so a request terminates even when a provider
\* hangs. Stated so that a finite run decides it: a request suspended on a
\* provider call that can never resolve still has a step to take.
C20_DeadlineBoundsEveryCall ==
  (Running /\ Hung(provider)) => ENABLED RequestStep

\* ------------------------------------------------------------------- C19
\* C19: the handlers of POST /recognition/math and /recognition/text answer
\* 200 exactly when the service's Result has success=true, 400 when it has
\* success=false or when no image was supplied (the service is not called
\* then), and 500 only when an unexpected exception escapes.
C19_StatusFollowsResult ==
  http.state = "responded" =>
    /\ http.status \in {200, 400, 500}
    /\ pc = "done" =>
         /\ http.kind = kind /\ http.providerId = providerId
         /\ (http.status = 200) <=> result.success
         /\ (http.status = 400) <=> ~result.success
    /\ http.image = "empty" =>
         (http.status = 400 /\ pc = "idle" /\ calls = <<>>)
    /\ (http.status = 500) <=> (http.image \in {"nonstring", "nobody"})
    /\ http.image \in {"file", "string"} => http.status \in {200, 400}

\* a request whose providers all failed was answered 400
C19_Witness ==
  /\ http.state = "responded"
  /\ pc = "done"
  /\ http.status = 400
  /\ Len(Attempts) > 0
  /\ ~result.success

\* ------------------------------------------------------------------- C21
\* a recognizeMath / recognizeText call on SeshatProvider object i can
\* resume and finds the local engine not ready
EngineNotReady(i) ==
  /\ IsSeshat(i)
  /\ objects[i].made
  /\ ~AwaitsInitialize(objects[i])
  /\ \/ objects[i].initializationPromise = "rejected"
     \/ ~objects[i].isInitialized
     \/ objects[i].seshatInstance = "null"

\* the remote API path answered OK
ApiAnswered(api) == ~api.threw /\ api.ok

\* C21: when the local engine of the frontend SeshatProvider with degraded
\* paths is not ready (its initialization failed), recognizeMath and
\* recognizeText first try the remote API path: when it answers OK the
\* Result is the API's, tagged fallbackProvider "api", and only when it
\* fails is the placeholder returned, tagged fallbackProvider "stub"; a
\* Result of a degraded path always carries fallbackProvider.
C21_ApiBeforePlaceholder ==
  flavour = "degrading" =>
    \A i \in Instances : EngineNotReady(i) =>
      \A k \in Kinds, payloadOk \in BOOLEAN, engine \in EngineOutputs :
        \A api \in ApiResponses(k) :
          LET r == SeshatResult(flavour, k, objects[i], payloadOk, engine,
                                api)
          IN /\ r.fallbackProvider \in {"api", "stub"}
             /\ ApiAnswered(api) =>
                  r = [api.body EXCEPT !.fallbackProvider = "api"]
             /\ ~ApiAnswered(api) => r.fallbackProvider = "stub"

\* ------------------------------------------------------------------- C22
\* C22: normalisation is deterministic and independent of the encoding:
\* for every valid base64 text b of an image, normalising b and normalising
\* any data URI "data:<mime>;base64," + b give the bytes b decodes to, and
\* a binary value is passed through byte for byte; this holds for the
\* frontend and the backend preprocessImage and for the controller's
\* prefix stripping.
C22_SameBytesForEveryEncoding ==
  normalized.by # "none" =>
    /\ ~normalized.threw
    /\ normalized.bytes = payload.bytes

\* ------------------------------------------------------------------- C23
\* a provider's recognition call found the payload malformed
PayloadRejected(c) ==
  /\ c.op # "isAvailable"
  /\ c.out.status = "returned"
  /\ c.out.result.error = PayloadErrorMessage

\* C23: a malformed image payload makes the request fail, locally and
\* without retry: once a provider has found the payload invalid, no further
\* provider is attempted for that request, and the request's Result is a
\* failure (success=false), never a success.
C23_InvalidPayloadNotRetried ==
  \A k \in 1..Len(calls) : PayloadRejected(calls[k]) =>
    /\ k = Len(calls)
    /\ ~calls[k].out.result.success
    /\ pc = "done" => ~result.success

\* ------------------------------------------------------------------- C24
\* the service in use was built without both MathPix credentials
CredentialsAbsent == ~(Truthy(env.appId) /\ Truthy(env.apiKey))

\* C24: when the application id and the API key of the remote provider are
\* not both present when the service is built, the remote provider is
\* unavailable for the rest of that service's life: no MathPixProvider is
\* registered with it and no recognize request, with or without
\* providerId, calls a method of a MathPixProvider.
C24_NoRemoteCallWithoutCredentials ==
  CredentialsAbsent =>
    /\ \A p \in Range(providers) : ~IsMathPix(p)
    /\ \A k \in 1..Len(calls) : ~IsMathPix(calls[k].inst)
    /\ (pc = "done" /\ providerId = "mathpix") => ~result.success

\* a service built with one credential only was asked for "mathpix" and
\* answered with a failure, having called no provider
C24_Witness ==
  /\ Truthy(env.appId)
  /\ ~Truthy(env.apiKey)
  /\ pc = "done"
  /\ providerId = "mathpix"
  /\ calls = <<>>
  /\ result = FailureResult(NotFoundMessage("mathpix"))

\* ------------------------------------------------------------------- C25
\* the readiness of a SeshatProvider object with fields o
Readiness(o) ==
  IF o.isInitialized THEN "Ready"
  ELSE IF o.initializationPromise = "rejected" THEN "Failed"
  ELSE IF o.initializationPromise = "null" THEN "Uninitialized"
  ELSE "Initializing"

\* the fields of a SeshatProvider object fit its readiness
WellFormed(o) ==
  /\ o.isInitialized =>
       (o.initializationPromise = "fulfilled" /\ o.seshatInstance # "null")
  /\ o.initializationPromise = "fulfilled" => o.isInitialized
  /\ o.made <=> o.initializationPromise # "null"

\* the steps of the readiness state machine
ReadinessStep(i) ==
  LET before == Readiness(objects[i])
      after == Readiness(objects'[i])
  IN /\ \/ after = before
        \/ before = "Uninitialized" /\ after = "Initializing"
        \/ before = "Initializing" /\ after \in {"Ready", "Failed"}
     /\ before \in {"Ready", "Failed"} =>
          /\ objects'[i].loads = objects[i].loads
          /\ objects'[i].isInitialized = objects[i].isInitialized
          /\ objects'[i].seshatInstance = objects[i].seshatInstance
          /\ ShippedAvailableOutcomes(i) = {Resolved(before = "Ready")}

\* C25: the readiness of a SeshatProvider object moves along
\* Uninitialized -> Initializing -> Ready | Failed and in no other way:
\* Ready and Failed are never left (isInitialized never goes back to
\* false, a failed initialization is never attempted again and isAvailable
\* keeps answering false), and whenever isInitialized is true the engine
\* instance is not null.
C25_ReadinessStateMachine ==
  /\ [](\A i \in Instances : IsSeshat(i) => WellFormed(objects[i]))
  /\ [][\A i \in Instances : IsSeshat(i) => ReadinessStep(i)]_vars

\* isAvailable was called on an object whose initialization had failed,
\* answered false and started no second load
C25_Witness ==
  /\ answer.op = "isAvailable"
  /\ answer.out = Resolved(FALSE)
  /\ Readiness(objects[answer.inst]) = "Failed"
  /\ objects[answer.inst].loads = 1

\* ------------------------------------------------------------------- C26
\* a request without providerId has ended with every candidate failed
AllCandidatesFailed ==
  /\ NoIdRequest
  /\ pc = "done"
  /\ Len(availableProviders) > 0
  /\ Len(Attempts) = Len(availableProviders)
  /\ \A k \in 1..Len(Attempts) : Failed(Attempts[k])

\* the messages the candidates supplied
SuppliedMessages ==
  {MessageOf(Attempts[k]) : k \in {j \in 1..Len(Attempts) :
                                     Truthy(MessageOf(Attempts[j]))}}

\* C26 as stated: without a providerId, when every candidate fails and at
\* least one of them supplied a message, the error of the final Result is
\* a message supplied by a candidate and not the generic text; an earlier
\* candidate's message is not lost when the last candidate fails with no
\* message or an empty one.
C26_SuppliedMessageSurvives ==
  (AllCandidatesFailed /\ SuppliedMessages # {}) =>
    result.error \in SuppliedMessages

\* C26, amended: without a providerId, when every candidate fails, the
\* error of the final Result is the message of the last candidate when that
\* message is non-empty, and the generic text otherwise, whatever the
\* earlier candidates supplied.
C26_LastCandidateDecides ==
  AllCandidatesFailed =>
    result = FailureResult(
               IF Truthy(MessageOf(Attempts[Len(Attempts)]))
               THEN MessageOf(Attempts[Len(Attempts)])
               ELSE AllFailedMessage)

\* the first candidate supplied a message, the last one none, and the
\* Result carries the generic text
C26_Witness ==
  /\ AllCandidatesFailed
  /\ Len(Attempts) = 2
  /\ Truthy(MessageOf(Attempts[1]))
  /\ Attempts[2].out.status = "returned"
  /\ MessageOf(Attempts[2]) = Undef
  /\ result = FailureResult(AllFailedMessage)

\* ------------------------------------------------------------------- C27
\* C27: a request that runs while the registry is written works on the
\* registry as it was when the request started: a provider registered
\* while the request is suspended in its probe phase does not become a
\* candidate, and every provider whose recognition method the request
\* calls was registered when the request started.
C27_RegistryAsAtStart ==
  pc # "idle" =>
    /\ Range(availableProviders) \subseteq Range(startProviders)
    /\ \A k \in 1..Len(Attempts) :
         Attempts[k].inst \in Range(startProviders)

\* ------------------------------------------------------------------- C28
\* setCredentials was called in this step with these arguments
CredentialsSet(a) == a.op = "setCredentials"

\* one step of a MathPixProvider object: a stored credential is never
\* cleared, an available provider stays available, and setCredentials
\* leaves a credential alone when the map has no value for it
CredentialStep(i) ==
  /\ IsSet(objects[i].appId) => IsSet(objects'[i].appId)
  /\ IsSet(objects[i].apiKey) => IsSet(objects'[i].apiKey)
  /\ MathPixAvailable(objects[i]) => MathPixAvailable(objects'[i])
  /\ (CredentialsSet(answer') /\ answer'.inst = i) =>
       /\ objects'[i].appId =
            IF Truthy(answer'.args[1]) THEN answer'.args[1]
            ELSE objects[i].appId
       /\ objects'[i].apiKey =
            IF Truthy(answer'.args[2]) THEN answer'.args[2]
            ELSE objects[i].apiKey

\* C28: the availability of a MathPixProvider is monotonic: setCredentials
\* overwrites a credential only with a non-empty value and nothing clears
\* one, so once isAvailable() has resolved true it resolves true on every
\* later call; setCredentials with a map that lacks appId or apiKey leaves
\* that stored credential unchanged.
C28_AvailabilityMonotonic ==
  /\ [](\A i \in Made : IsMathPix(i) =>
          ShippedAvailableOutcomes(i) =
            {Resolved(IsSet(objects[i].appId) /\ IsSet(objects[i].apiKey))})
  /\ [][\A i \in Made : IsMathPix(i) => CredentialStep(i)]_vars

\* setCredentials was called with an empty appId and no apiKey on a
\* provider that was available, and the provider is still available
C28_Witness ==
  /\ CredentialsSet(answer)
  /\ answer.args = <<"", Undef>>
  /\ MathPixAvailable(objects[answer.inst])

\* ------------------------------------------------------------------- C29
\* a provider call without the name of its kind-specific method
RoleOf(c) == <<c.inst, IF c.op = "isAvailable" THEN "probe" ELSE "recognize">>

Roles(cs) == [k \in 1..Len(cs) |-> RoleOf(cs[k])]

Outcomes(cs) == [k \in 1..Len(cs) |-> cs[k].out]

\* what a request does, told without its kind: the calls it makes and the
\* Result it ends with, from the registry, the providerId and the outcomes
\* of the provider calls in the order in which they are made
RECURSIVE ReplayAttempts(_, _, _, _, _)
ReplayAttempts(avail, k, outs, le, roles) ==
  IF k > Len(avail)
  THEN [roles |-> roles,
        result |-> FailureResult(IF Truthy(le) THEN le
                                 ELSE AllFailedMessage)]
  ELSE LET out == outs[Len(roles) + 1]
           now == Append(roles, <<avail[k], "recognize">>)
       IN IF out.status = "threw"
          THEN ReplayAttempts(avail, k + 1, outs, out.message, now)
          ELSE IF out.result.success
          THEN [roles |-> now, result |-> out.result]
          ELSE ReplayAttempts(avail, k + 1, outs, out.result.error, now)

ReplayFallback(reg, outs) ==
  LET avail == SelectSeq([k \in 1..Len(reg) |->
                            IF outs[k] = Resolved(TRUE) THEN reg[k] ELSE 0],
                         LAMBDA p : p # 0)
      probes == [k \in 1..Len(reg) |-> <<reg[k], "probe">>]
  IN IF Len(avail) = 0
     THEN [roles |-> probes, result |-> FailureResult(NoProvidersMessage)]
     ELSE ReplayAttempts(avail, 1, outs, Undef, probes)

ReplayExplicit(reg, pid, outs) ==
  LET p == MapGet(reg, pid) IN
  IF p = 0
  THEN [roles |-> <<>>, result |-> FailureResult(NotFoundMessage(pid))]
  ELSE IF outs[1].status = "threw"
  THEN [roles |-> <<<<p, "probe">>>>,
        result |-> FailureResult(outs[1].message)]
  ELSE IF ~outs[1].avail
  THEN [roles |-> <<<<p, "probe">>>>,
        result |-> FailureResult(NotAvailableMessage(p))]
  ELSE [roles |-> <<<<p, "probe">>, <<p, "recognize">>>>,
        result |-> IF outs[2].status = "threw"
                   THEN FailureResult(outs[2].message)
                   ELSE outs[2].result]

Replay(reg, pid, outs) ==
  IF Truthy(pid) THEN ReplayExplicit(reg, pid, outs)
  ELSE ReplayFallback(reg, outs)

UiInFlight ==
  {r \in 1..Len(ui.requests) : ui.requests[r].stage = "inflight"}

\* C30: the busy flag of useRecognition (isLoading) and of
\* App.handleImageCapture (isRecognizing) is accurate under overlapping
\* requests: it is true whenever a request started through the component
\* is still in flight and false once all of them have ended.
C30_BusyFlagAccurate ==
  ui.component # "none" => (ui.isLoading <=> UiInFlight # {})

====
